---- MODULE Spec2Model ----
(***************************************************************************)
(* Model of telegram-zoo-bot/src/bot.py: the quiz session kept in          *)
(* context.user_data, the content loaded at import time, the callback      *)
(* router built by main() and the handlers it dispatches to.               *)
(*                                                                         *)
(* A handler runs to completion on one update (python-telegram-bot         *)
(* processes updates one at a time unless concurrent_updates is set, and   *)
(* main() does not set it), so each handler is one action.  An exception   *)
(* raised inside a handler ends that handler; the dispatcher logs it and   *)
(* goes on with the next update.  Whatever the handler assigned before     *)
(* the raise stays assigned.                                               *)
(*                                                                         *)
(* Texts are abstracted to what distinguishes them: a prompt is its kind,  *)
(* the numbers and the content item it is built from, and its callback     *)
(* buttons.  Callback data "name_digits" is the record                     *)
(* [name |-> name, digits |-> sequence of decimal digits].                 *)
(***************************************************************************)
EXTENDS Integers, Sequences, FiniteSets, TLC

\* ------------------------------------------------------------------ bounds

\* Answer tokens answer_0 .. answer_MaxToken are delivered by the gateway.
MaxToken == 4

\* answer_handler is not delivered once a session holds this many answers
\* (the code itself never stops appending).
MaxAnswers == 3

\* ----------------------------------------------------------------- content

\* load_animals(): the built-in list (names stand for the Animal objects).
FallbackAnimals == <<"AmurTiger", "RedPanda", "SnowLeopard">>

\* load_questions(): the built-in list, two questions with four answers each.
FallbackQuestions ==
    << [question |-> "TimeOfDay", answers |-> <<"Morning", "Day", "Evening", "Night">>],
       [question |-> "WhereToLive", answers |-> <<"Mountains", "Forest", "Water", "Desert">>] >>

\* What data/animals.json may be: absent, or a JSON list of animals.
AnimalsFiles ==
    { [exists |-> FALSE, data |-> <<>>],
      [exists |-> TRUE,  data |-> <<"Lion", "Zebra">>] }

\* What data/questions.json may be: absent, a JSON list of questions whose
\* answer lists differ in length, or the empty JSON list.
QuestionsFiles ==
    { [exists |-> FALSE, data |-> <<>>],
      [exists |-> TRUE,
       data |-> << [question |-> "FileQ1", answers |-> <<"Yes", "No">>],
                   [question |-> "FileQ2", answers |-> <<"Red", "Green", "Blue">>] >>],
      [exists |-> TRUE,  data |-> <<>>] }

\* Mutant of load_animals: the except branch returns an empty list.
load_animals_empty(file) == IF file.exists THEN file.data ELSE <<>>

\* open() raises FileNotFoundError when the file is absent; the except
\* branch returns the built-in list.
load_animals(file) == IF file.exists THEN file.data ELSE FallbackAnimals

load_questions(file) == IF file.exists THEN file.data ELSE FallbackQuestions

\* What os.getenv('BOT_TOKEN') may return: None (the variable is not set),
\* the empty string, or a token.
NoToken == "None"

TokenValues == {NoToken, "", "123:token"}

\* A module global that was never assigned.
NotLoaded == <<>>

\* main(): the callbacks handed to application.add_handler.
MainHandlers ==
    { "start_handler", "about_program_handler", "start_quiz_handler",
      "answer_handler", "share_result_handler", "contact_handler",
      "become_guardian_handler" }

\* Mutant of ModuleImport: the token is tested after the content is loaded.
ModuleImport_check_late(token, afile, qfile) ==
    IF token = NoToken \/ token = ""
    THEN [process |-> "fatal", ANIMALS |-> load_animals(afile),
          QUESTIONS |-> load_questions(qfile), registered |-> {}]
    ELSE [process |-> "polling", ANIMALS |-> load_animals(afile),
          QUESTIONS |-> load_questions(qfile), registered |-> MainHandlers]

\* The module's top-level code, then main(): "if not BOT_TOKEN" raises
\* ValueError before anything else is assigned; otherwise the two lists
\* are loaded, main() registers the handlers and polls for updates.
ModuleImport(token, afile, qfile) ==
    IF token = NoToken \/ token = ""
    THEN [process |-> "fatal", ANIMALS |-> NotLoaded,
          QUESTIONS |-> NotLoaded, registered |-> {}]
    ELSE [process |-> "polling", ANIMALS |-> load_animals(afile),
          QUESTIONS |-> load_questions(qfile), registered |-> MainHandlers]

\* --------------------------------------------------------------- variables

VARIABLES
    BOT_TOKEN,       \* module global: what os.getenv('BOT_TOKEN') returned
    process,         \* "polling" once main() runs, "fatal" if import raised
    registered,      \* the handlers main() added to the application
    animals_json,    \* data/animals.json as found at import time
    questions_json,  \* data/questions.json as found at import time
    ANIMALS,         \* module global, set once
    QUESTIONS,       \* module global, set once
    users,           \* the users the gateway delivers updates of
    user_data,       \* user -> context.user_data, a dict (keys -> values)
    update,          \* the update handled last
    handler,         \* the handler the router ran for it ("none": no match)
    rendered,        \* the prompt that handler rendered (kind "none": none)
    error,           \* the exception that handler raised ("none": none)
    everCompleted,   \* history: users whose quiz has shown a result so far
    shown,           \* history: user -> numbers of the questions shown to them
    tasks            \* handler coroutines run concurrently: task -> its state

vars == <<BOT_TOKEN, process, registered, animals_json, questions_json,
          ANIMALS, QUESTIONS, users, user_data,
          update, handler, rendered, error, everCompleted, shown, tasks>>

\* ------------------------------------------------------------ dictionaries

EmptyDict == [k \in {} |-> 0]

HasKey(d, k) == k \in DOMAIN d

\* d[k] = v
Put(d, k, v) == [x \in (DOMAIN d) \cup {k} |-> IF x = k THEN v ELSE d[x]]

\* ------------------------------------------------------------ callback data

Data(name, digits) == [name |-> name, digits |-> digits]

RECURSIVE FormatInt(_)
\* f"{i}": the decimal digits of i, most significant first.
FormatInt(i) == IF i < 10 THEN <<i>> ELSE FormatInt(i \div 10) \o <<i % 10>>

RECURSIVE ParseInt(_)
\* int(s) of a string of decimal digits (leading zeros allowed).
ParseInt(ds) ==
    IF ds = <<>> THEN 0
    ELSE ParseInt(SubSeq(ds, 1, Len(ds) - 1)) * 10 + ds[Len(ds)]

\* f"answer_{i}"
AnswerData(i) == Data("answer", FormatInt(i))

\* The callback data the gateway may deliver: every token some prompt of the
\* bot carries, and answer tokens up to answer_MaxToken, among them one
\* written with a leading zero.  A button stays pressable for as long as an
\* older message shows it, so any of them may arrive in any session state.
CallbackData ==
    { Data(n, <<>>) : n \in {"start_quiz", "about_program", "contact",
                             "share_result", "become_guardian",
                             "back_to_start", "back_to_result"} }
    \cup { AnswerData(i) : i \in 0..MaxToken }
    \cup { Data("answer", <<0, 1>>) }

\* main(): the CallbackQueryHandler patterns, in registration order; the
\* first pattern that matches names the handler, no match names none.
Route(data) ==
    CASE data.name = "about_program"   /\ data.digits = <<>> -> "about_program_handler"
      [] data.name = "start_quiz"      /\ data.digits = <<>> -> "start_quiz_handler"
      [] data.name = "answer"          /\ Len(data.digits) >= 1 -> "answer_handler"
      [] data.name = "share_result"    /\ data.digits = <<>> -> "share_result_handler"
      [] data.name = "contact"         /\ data.digits = <<>> -> "contact_handler"
      [] data.name = "become_guardian" /\ data.digits = <<>> -> "become_guardian_handler"
      [] OTHER -> "none"

\* ----------------------------------------------------------------- prompts

\* A rendered message: its kind, the numbers in its text (question number,
\* question count), the content item it names, and its callback buttons.
Prompt(kind, num, of, body, buttons) ==
    [kind |-> kind, num |-> num, of |-> of, body |-> body, buttons |-> buttons]

NoPrompt == Prompt("none", 0, 0, "", <<>>)

\* What a handler leaves behind: the dict, the prompt, the exception.
Outcome(ud, prompt, err) == [user_data |-> ud, rendered |-> prompt, error |-> err]

RECURSIVE SumSeq(_)
\* sum(answers)
SumSeq(s) == IF s = <<>> THEN 0 ELSE s[1] + SumSeq(Tail(s))

\* ---------------------------------------------------------------- handlers

\* Mutant of AnswerButtons: the buttons are numbered from 1
\* (enumerate(..., start=1)).
AnswerButtons_from_one(question) ==
    [i \in 1..Len(question.answers) |-> AnswerData(i)]

\* The callback buttons of the question prompt: answer_0 .. answer_(m-1),
\* one per answer, in order (enumerate).
AnswerButtons(question) == [i \in 1..Len(question.answers) |-> AnswerData(i - 1)]

\* Mutant of show_result: the score is the number of answers, not their sum.
show_result_count(ud) ==
    LET answers       == ud["answers"]
        total_score   == Len(answers)
        animal_index  == total_score % Len(ANIMALS)
        result_animal == ANIMALS[animal_index + 1]
    IN  Outcome(Put(ud, "result_animal", result_animal),
                Prompt("result", 0, 0, result_animal,
                       << Data("start_quiz", <<>>), Data("share_result", <<>>),
                          Data("become_guardian", <<>>) >>),
                "none")

\* Mutant of show_result: a result stored by an earlier quiz is kept.
show_result_keep_first(ud) ==
    LET answers       == ud["answers"]
        total_score   == SumSeq(answers)
        animal_index  == total_score % Len(ANIMALS)
        result_animal == IF HasKey(ud, "result_animal") THEN ud["result_animal"]
                         ELSE ANIMALS[animal_index + 1]
    IN  Outcome(Put(ud, "result_animal", result_animal),
                Prompt("result", 0, 0, result_animal,
                       << Data("start_quiz", <<>>), Data("share_result", <<>>),
                          Data("become_guardian", <<>>) >>),
                "none")

\* show_result: the result is computed from the answers, stored in the dict
\* and shown with its three buttons.
show_result(ud) ==
    LET answers       == ud["answers"]
        total_score   == SumSeq(answers)
        animal_index  == total_score % Len(ANIMALS)
        result_animal == ANIMALS[animal_index + 1]
    IN  Outcome(Put(ud, "result_animal", result_animal),
                Prompt("result", 0, 0, result_animal,
                       << Data("start_quiz", <<>>), Data("share_result", <<>>),
                          Data("become_guardian", <<>>) >>),
                "none")

\* show_question: past the last question the result is shown; otherwise the
\* current question, numbered current_q + 1 of len(questions).
show_question(ud) ==
    LET questions == ud["questions"]
        current_q == ud["current_question"]
    IN  IF current_q >= Len(questions)
        THEN show_result(ud)
        ELSE LET question == questions[current_q + 1]
             IN  Outcome(ud,
                         Prompt("question", current_q + 1, Len(questions),
                                question.question, AnswerButtons(question)),
                         "none")

\* Mutant of start_handler: /start also discards the quiz in progress.
start_handler_reset(ud, data) ==
    Outcome(EmptyDict,
            Prompt("welcome", 0, 0, "",
                   << Data("start_quiz", <<>>), Data("about_program", <<>>),
                      Data("contact", <<>>) >>),
            "none")

\* start_handler: the /start command replies with the welcome menu.
start_handler(ud, data) ==
    Outcome(ud,
            Prompt("welcome", 0, 0, "",
                   << Data("start_quiz", <<>>), Data("about_program", <<>>),
                      Data("contact", <<>>) >>),
            "none")

\* Mutant of start_quiz_handler: the answers of an earlier quiz are kept.
start_quiz_handler_keep_answers(ud, data) ==
    show_question(Put(Put(Put(ud, "questions", QUESTIONS),
                          "current_question", 0),
                      "answers", IF HasKey(ud, "answers") THEN ud["answers"] ELSE <<>>))

\* start_quiz_handler: three assignments, then the question is shown.
start_quiz_handler(ud, data) ==
    show_question(Put(Put(Put(ud, "questions", QUESTIONS),
                          "current_question", 0),
                      "answers", <<>>))

\* Mutant of answer_handler: the counter is not incremented.
answer_handler_no_increment(ud, data) ==
    LET answer_index == ParseInt(data.digits)
    IN  IF ~HasKey(ud, "answers")
        THEN Outcome(ud, NoPrompt, "KeyError")
        ELSE show_question(Put(ud, "answers", Append(ud["answers"], answer_index)))

\* Mutant of answer_handler: the index is inserted at the front of the list.
answer_handler_insert_front(ud, data) ==
    LET answer_index == ParseInt(data.digits)
    IN  IF ~HasKey(ud, "answers")
        THEN Outcome(ud, NoPrompt, "KeyError")
        ELSE show_question(
                 Put(Put(ud, "answers", <<answer_index>> \o ud["answers"]),
                     "current_question", ud["current_question"] + 1))

\* answer_handler: user_data['answers'] raises KeyError when no quiz was
\* started; nothing was assigned before it.  Otherwise the parsed index is
\* appended, the counter incremented and the question shown.
answer_handler(ud, data) ==
    LET answer_index == ParseInt(data.digits)
    IN  IF ~HasKey(ud, "answers")
        THEN Outcome(ud, NoPrompt, "KeyError")
        ELSE show_question(
                 Put(Put(ud, "answers", Append(ud["answers"], answer_index)),
                     "current_question", ud["current_question"] + 1))

\* about_program_handler: static text, two buttons.
about_program_handler(ud, data) ==
    Outcome(ud,
            Prompt("about", 0, 0, "",
                   << Data("start_quiz", <<>>), Data("back_to_start", <<>>) >>),
            "none")

\* Mutant of share_result_handler: user_data['result_animal'] in place of
\* .get, which raises KeyError without the key.
share_result_handler_subscript(ud, data) ==
    IF ~HasKey(ud, "result_animal")
    THEN Outcome(ud, NoPrompt, "KeyError")
    ELSE Outcome(ud,
                 Prompt("share", 0, 0, ud["result_animal"],
                        << Data("back_to_result", <<>>) >>),
                 "none")

\* share_result_handler: user_data.get('result_animal') is None without the
\* key: the error text is shown.  Otherwise the share prompt, whose url
\* button carries the stored animal's name (a url button has no callback).
share_result_handler(ud, data) ==
    IF ~HasKey(ud, "result_animal")
    THEN Outcome(ud, Prompt("share_error", 0, 0, "", <<>>), "none")
    ELSE Outcome(ud,
                 Prompt("share", 0, 0, ud["result_animal"],
                        << Data("back_to_result", <<>>) >>),
                 "none")

\* contact_handler: static text, one button.
contact_handler(ud, data) ==
    Outcome(ud, Prompt("contact", 0, 0, "", << Data("back_to_start", <<>>) >>), "none")

\* become_guardian_handler: static text, a url button and one callback button.
become_guardian_handler(ud, data) ==
    Outcome(ud, Prompt("guardian", 0, 0, "", << Data("back_to_result", <<>>) >>), "none")

\* ------------------------------------------------------------ session states

\* NotStarted: no quiz was started, the dict holds no quiz keys.
NotStarted(ud) == ~HasKey(ud, "answers")

Started(ud) == HasKey(ud, "answers")

\* InProgress(i): a question is pending.
InProgress(ud) == Started(ud) /\ ud["current_question"] < Len(ud["questions"])

\* Completed: the started quiz has no question left.
Completed(ud) == Started(ud) /\ ud["current_question"] >= Len(ud["questions"])

\* ------------------------------------------------------------------ actions

\* An update: who sent it and what it carries.  origin is not part of what
\* the handler receives: it records which question's prompt the pressed
\* answer button was on (0: none, the button of another prompt or of a
\* message this process did not render).
Command(u, name) ==
    [kind |-> "command", user |-> u, data |-> Data(name, <<>>), origin |-> 0]

Callback(u, data) == [kind |-> "callback", user |-> u, data |-> data, origin |-> 0]

\* The answer button with callback data `data` pressed on the prompt of
\* question number o.
Press(u, data, o) == [kind |-> "callback", user |-> u, data |-> data, origin |-> o]

\* The prompts a press of `data` by user u may come from: a question shown
\* to u earlier that has a button carrying it (the message still displayed,
\* or a second press sent before the message was edited), or none.
Origins(u, data) ==
    {0} \cup { o \in shown[u] :
                 /\ o <= Len(QUESTIONS)
                 /\ \E j \in 1..Len(QUESTIONS[o].answers) :
                        AnswerButtons(QUESTIONS[o])[j] = data }

\* No handler runs concurrently with another.
NoTasks == [t \in {} |-> 0]

\* Mutant of Handle: the handlers' dict is one for all users (bot_data in
\* place of user_data).
Handle_shared_dict(u, upd, h, out) ==
    /\ process = "polling"
    /\ h = "none" \/ h \in registered
    /\ tasks = NoTasks
    /\ UNCHANGED tasks
    /\ update' = upd
    /\ handler' = h
    /\ user_data' = [v \in users |-> out.user_data]
    /\ rendered' = out.rendered
    /\ error' = out.error
    /\ everCompleted' = IF Completed(out.user_data) THEN everCompleted \cup {u}
                        ELSE everCompleted
    /\ shown' = IF out.rendered.kind = "question"
                THEN [shown EXCEPT ![u] = @ \cup {out.rendered.num}]
                ELSE shown
    /\ UNCHANGED <<BOT_TOKEN, process, registered, animals_json, questions_json,
                   ANIMALS, QUESTIONS, users>>

\* What running handler h on update upd of user u leaves behind.
Effects(u, upd, h, out) ==
    /\ update' = upd
    /\ handler' = h
    /\ user_data' = [user_data EXCEPT ![u] = out.user_data]
    /\ rendered' = out.rendered
    /\ error' = out.error
    /\ everCompleted' = IF Completed(out.user_data) THEN everCompleted \cup {u}
                        ELSE everCompleted
    /\ shown' = IF out.rendered.kind = "question"
                THEN [shown EXCEPT ![u] = @ \cup {out.rendered.num}]
                ELSE shown
    /\ UNCHANGED <<BOT_TOKEN, process, registered, animals_json, questions_json,
                   ANIMALS, QUESTIONS, users>>

\* One update of user u handled by handler h, start to end, with the given
\* outcome: updates are handled one at a time.
Handle(u, upd, h, out) ==
    /\ process = "polling"
    /\ h = "none" \/ h \in registered
    /\ tasks = NoTasks
    /\ Effects(u, upd, h, out)
    /\ UNCHANGED tasks

StartCommand(u) ==
    Handle(u, Command(u, "start"), "start_handler",
           start_handler(user_data[u], Data("start", <<>>)))

StartQuiz(u) ==
    \E d \in CallbackData :
        /\ Route(d) = "start_quiz_handler"
        /\ Handle(u, Callback(u, d), Route(d), start_quiz_handler(user_data[u], d))

\* An answer press of user u carrying one of the callback data ds.
AnswerWith(u, ds) ==
    \E d \in ds :
        /\ Route(d) = "answer_handler"
        /\ Started(user_data[u]) => Len(user_data[u]["answers"]) < MaxAnswers
        /\ \E o \in Origins(u, d) :
               Handle(u, Press(u, d, o), Route(d), answer_handler(user_data[u], d))

Answer(u) == AnswerWith(u, CallbackData)

AboutProgram(u) ==
    \E d \in CallbackData :
        /\ Route(d) = "about_program_handler"
        /\ Handle(u, Callback(u, d), Route(d), about_program_handler(user_data[u], d))

ShareResult(u) ==
    \E d \in CallbackData :
        /\ Route(d) = "share_result_handler"
        /\ Handle(u, Callback(u, d), Route(d), share_result_handler(user_data[u], d))

Contact(u) ==
    \E d \in CallbackData :
        /\ Route(d) = "contact_handler"
        /\ Handle(u, Callback(u, d), Route(d), contact_handler(user_data[u], d))

BecomeGuardian(u) ==
    \E d \in CallbackData :
        /\ Route(d) = "become_guardian_handler"
        /\ Handle(u, Callback(u, d), Route(d), become_guardian_handler(user_data[u], d))

\* Callback data no pattern matches: no handler runs.
Unrouted(u) ==
    \E d \in CallbackData :
        /\ Route(d) = "none"
        /\ Handle(u, Callback(u, d), "none", Outcome(user_data[u], NoPrompt, "none"))

\* ------------------------------------------------------------ specification

NoUpdate == [kind |-> "none", user |-> "nobody", data |-> Data("", <<>>), origin |-> 0]

\* After start-up: the module was imported with whatever token and files
\* exist, no update was handled and every user_data is the empty dict.
InitWith(us) ==
    /\ BOT_TOKEN \in TokenValues
    /\ animals_json \in AnimalsFiles
    /\ questions_json \in QuestionsFiles
    /\ LET m == ModuleImport(BOT_TOKEN, animals_json, questions_json)
       IN  /\ process = m.process
           /\ registered = m.registered
           /\ ANIMALS = m.ANIMALS
           /\ QUESTIONS = m.QUESTIONS
    /\ users = us
    /\ user_data = [u \in users |-> EmptyDict]
    /\ update = NoUpdate
    /\ handler = "none"
    /\ rendered = NoPrompt
    /\ error = "none"
    /\ everCompleted = {}
    /\ shown = [u \in users |-> {}]
    /\ tasks = NoTasks

Init == InitWith({"u1"})

Next ==
    \/ \E u \in users : StartCommand(u)
    \/ \E u \in users : StartQuiz(u)
    \/ \E u \in users : Answer(u)
    \/ \E u \in users : AboutProgram(u)
    \/ \E u \in users : ShareResult(u)
    \/ \E u \in users : Contact(u)
    \/ \E u \in users : BecomeGuardian(u)
    \/ \E u \in users : Unrouted(u)

Spec == Init /\ [][Next]_vars

\* The bot as the repository ships it: no data directory, so both loads take
\* the built-in lists.  Its behaviours are behaviours of Spec.
InitBuiltin ==
    /\ Init
    /\ ~animals_json.exists
    /\ ~questions_json.exists

SpecBuiltin == InitBuiltin /\ [][Next]_vars

\* Two users of the bot as shipped.  Every user_data is a dict of its own
\* (the application keeps one per user id).  To keep the state space small
\* the answer presses are those of the buttons answer_0 and answer_1.
InitUsers ==
    /\ InitWith({"u1", "u2"})
    /\ ~animals_json.exists
    /\ ~questions_json.exists

TwoUserData == { AnswerData(0), AnswerData(1) }

NextUsers ==
    \/ \E u \in users : StartCommand(u)
    \/ \E u \in users : StartQuiz(u)
    \/ \E u \in users : AnswerWith(u, TwoUserData)
    \/ \E u \in users : AboutProgram(u)
    \/ \E u \in users : ShareResult(u)
    \/ \E u \in users : Contact(u)
    \/ \E u \in users : BecomeGuardian(u)
    \/ \E u \in users : Unrouted(u)

SpecUsers == InitUsers /\ [][NextUsers]_vars

\* Two answer updates of one user handled concurrently (an application
\* built with concurrent_updates; main() does not ask for it).  Each
\* answer_handler coroutine is a task that gives up control only at an
\* await of a gateway call: at query.answer() (line 138) and at
\* edit_message_text (line 129 or 179).  "await show_question(...)" and
\* "await show_result(...)" call into a coroutine and do not give up
\* control, so lines 140-145 with show_question up to its
\* edit_message_text run as one step.
Task(u, d, ud) == [user |-> u, data |-> d, pc |-> "created", snapshot |-> ud]

\* The application creates a task for each of two answer presses of u.
Spawn(u) ==
    /\ process = "polling"
    /\ "answer_handler" \in registered
    /\ tasks = NoTasks
    /\ Started(user_data[u]) => Len(user_data[u]["answers"]) + 2 <= MaxAnswers
    /\ \E d1 \in TwoUserData : \E d2 \in TwoUserData :
           tasks' = [t \in {"t1", "t2"} |->
                        Task(u, IF t = "t1" THEN d1 ELSE d2, user_data[u])]
    /\ UNCHANGED <<BOT_TOKEN, process, registered, animals_json, questions_json,
                   ANIMALS, QUESTIONS, users, user_data, update, handler,
                   rendered, error, everCompleted, shown>>

\* The task runs from the start of answer_handler to await query.answer().
TaskStart(t) ==
    /\ t \in DOMAIN tasks
    /\ tasks[t].pc = "created"
    /\ tasks' = [tasks EXCEPT ![t].pc = "query_answer"]
    /\ UNCHANGED <<BOT_TOKEN, process, registered, animals_json, questions_json,
                   ANIMALS, QUESTIONS, users, user_data, update, handler,
                   rendered, error, everCompleted, shown>>

\* Mutant of TaskResume: the handler works on the dict as it was when the
\* update arrived and stores it back.
TaskResume_stale_dict(t) ==
    /\ t \in DOMAIN tasks
    /\ tasks[t].pc = "query_answer"
    /\ LET u   == tasks[t].user
           out == answer_handler(tasks[t].snapshot, tasks[t].data)
       IN  /\ Effects(u, Press(u, tasks[t].data, 0), "answer_handler", out)
           /\ tasks' = [tasks EXCEPT ![t].pc = IF out.error = "none"
                                               THEN "edit_message" ELSE "raised"]

\* The task resumes after query.answer(): the index is parsed, appended,
\* the counter incremented and the prompt built, up to the await of
\* edit_message_text; a KeyError ends the task.
TaskResume(t) ==
    /\ t \in DOMAIN tasks
    /\ tasks[t].pc = "query_answer"
    /\ LET u   == tasks[t].user
           out == answer_handler(user_data[u], tasks[t].data)
       IN  /\ Effects(u, Press(u, tasks[t].data, 0), "answer_handler", out)
           /\ tasks' = [tasks EXCEPT ![t].pc = IF out.error = "none"
                                               THEN "edit_message" ELSE "raised"]

\* The task resumes after edit_message_text and returns.
TaskFinish(t) ==
    /\ t \in DOMAIN tasks
    /\ tasks[t].pc = "edit_message"
    /\ tasks' = [tasks EXCEPT ![t].pc = "done"]
    /\ UNCHANGED <<BOT_TOKEN, process, registered, animals_json, questions_json,
                   ANIMALS, QUESTIONS, users, user_data, update, handler,
                   rendered, error, everCompleted, shown>>

NextConcurrent ==
    \/ Next
    \/ \E u \in users : Spawn(u)
    \/ \E t \in {"t1", "t2"} : TaskStart(t)
    \/ \E t \in {"t1", "t2"} : TaskResume(t)
    \/ \E t \in {"t1", "t2"} : TaskFinish(t)

SpecConcurrent == InitBuiltin /\ [][NextConcurrent]_vars

\* ------------------------------------------------------------------ claims

\* The question a started, unfinished session is at.
CurrentQuestion(ud) == ud["questions"][ud["current_question"] + 1]

\* The step handles an update of user u with handler h.
Handled(u, h) == handler' = h /\ update'.user = u

\* C1: an answer whose index is >= the number of answers of the current
\* question is rejected: the session is left as it was and an error is
\* signalled.
C1_OutOfRangeAnswerRejected ==
    [][ \A u \in users :
          ( /\ Handled(u, "answer_handler")
            /\ InProgress(user_data[u])
            /\ ParseInt(update'.data.digits)
                   >= Len(CurrentQuestion(user_data[u]).answers) )
          => ( /\ user_data'[u] = user_data[u]
               /\ error' # "none" ) ]_vars

\* C2: in a started session 0 <= current_question <= len(questions).
C2_IndexWithinQuestions ==
    \A u \in users :
        Started(user_data[u])
        => ( /\ 0 <= user_data[u]["current_question"]
             /\ user_data[u]["current_question"] <= Len(user_data[u]["questions"]) )

\* C3: between handler executions, current_question of a started session
\* equals the number of entries in answers.
C3_IndexEqualsAnswerCount ==
    \A u \in users :
        Started(user_data[u])
        => user_data[u]["current_question"] = Len(user_data[u]["answers"])

\* C3 witness: a session that has recorded two answers.
C3_Witness ==
    \E u \in users :
        /\ Started(user_data[u])
        /\ handler = "answer_handler"
        /\ Len(user_data[u]["answers"]) = 2

\* C4: in Completed every action other than restart leaves the session
\* Completed and leaves its fields unchanged.
C4_CompletedChangesOnlyByRestart ==
    [][ \A u \in users :
          ( /\ Completed(user_data[u])
            /\ update'.user = u
            /\ handler' # "start_quiz_handler" )
          => ( /\ Completed(user_data'[u])
               /\ user_data'[u] = user_data[u] ) ]_vars

\* C5: the result stored by a completed quiz is ANIMALS[sum(answers) mod
\* len(ANIMALS)], the index lies in 0..len(ANIMALS)-1, and answers [1, 0]
\* over a 3-entry pool give pool entry 1.
C5_ResultIsSumModPool ==
    \A u \in users :
        Completed(user_data[u])
        => LET index == SumSeq(user_data[u]["answers"]) % Len(ANIMALS)
           IN  /\ HasKey(user_data[u], "result_animal")
               /\ index \in 0..(Len(ANIMALS) - 1)
               /\ user_data[u]["result_animal"] = ANIMALS[index + 1]
               /\ (user_data[u]["answers"] = <<1, 0>> /\ Len(ANIMALS) = 3)
                  => user_data[u]["result_animal"] = ANIMALS[1 + 1]

\* C5 witness: the quiz completed with answers [1, 0] over the 3-entry pool.
C5_Witness ==
    \E u \in users :
        /\ Completed(user_data[u])
        /\ user_data[u]["answers"] = <<1, 0>>
        /\ Len(ANIMALS) = 3
        /\ rendered.kind = "result"
        /\ rendered.body = "RedPanda"

\* C6: an answer received with no session is a no-op: no session state is
\* created and the handler raises no error.
C6_AnswerWithoutSessionIgnored ==
    [][ \A u \in users :
          ( /\ NotStarted(user_data[u])
            /\ Handled(u, "answer_handler") )
          => ( /\ user_data'[u] = user_data[u]
               /\ error' = "none" ) ]_vars

\* C7: the share prompt is rendered only in Completed, and it shows the
\* result of that completed quiz.
C7_SharePromptOnlyWhenCompleted ==
    \A u \in users :
        ( /\ handler = "share_result_handler"
          /\ update.user = u
          /\ rendered.kind = "share" )
        => ( /\ Completed(user_data[u])
             /\ rendered.body = user_data[u]["result_animal"] )

\* C8: a share action of a user whose session never reached Completed
\* renders the redo-the-quiz error message, changes no session field and
\* raises no error.
C8_ShareWithoutResultRendersError ==
    [][ \A u \in users :
          ( /\ Handled(u, "share_result_handler")
            /\ u \notin everCompleted )
          => ( /\ rendered' = Prompt("share_error", 0, 0, "", <<>>)
               /\ user_data'[u] = user_data[u]
               /\ error' = "none" ) ]_vars

\* C8 witness: the error message was rendered for a user in the first quiz.
C8_Witness ==
    \E u \in users :
        /\ handler = "share_result_handler"
        /\ update.user = u
        /\ u \notin everCompleted
        /\ InProgress(user_data[u])
        /\ user_data[u]["current_question"] = 1
        /\ rendered.kind = "share_error"

\* C9 as stated: begin-quiz/restart leaves current_question = 0, answers = []
\* and questions = QUESTIONS, and the first question is presented.
C9_RestartPresentsFirstQuestion ==
    [][ \A u \in users :
          Handled(u, "start_quiz_handler")
          => ( /\ user_data'[u]["current_question"] = 0
               /\ user_data'[u]["answers"] = <<>>
               /\ user_data'[u]["questions"] = QUESTIONS
               /\ rendered'.kind = "question"
               /\ rendered'.num = 1
               /\ Len(QUESTIONS) >= 1
               /\ rendered'.body = QUESTIONS[1].question ) ]_vars

\* C9 amended: begin-quiz/restart leaves current_question = 0, answers = []
\* and questions = QUESTIONS; when the loaded question list is not empty the
\* first question is presented, and when it is empty the result is.
C9_RestartResetsSession ==
    [][ \A u \in users :
          Handled(u, "start_quiz_handler")
          => ( /\ user_data'[u]["current_question"] = 0
               /\ user_data'[u]["answers"] = <<>>
               /\ user_data'[u]["questions"] = QUESTIONS
               /\ IF Len(QUESTIONS) >= 1
                  THEN /\ rendered'.kind = "question"
                       /\ rendered'.num = 1
                       /\ rendered'.body = QUESTIONS[1].question
                  ELSE rendered'.kind = "result" ) ]_vars

\* C9 witness: a restart after a completed quiz presented the first question.
C9_Witness ==
    \E u \in users :
        /\ handler = "start_quiz_handler"
        /\ update.user = u
        /\ u \in everCompleted
        /\ HasKey(user_data[u], "result_animal")
        /\ user_data[u]["answers"] = <<>>
        /\ rendered.kind = "question"
        /\ rendered.num = 1

\* C10: the token answer_k with k valid for the current question, in
\* InProgress(i), appends exactly k to answers and moves current_question
\* from i to i+1; the question set is unchanged.
C10_ValidAnswerAppended ==
    [][ \A u \in users : \A k \in 0..MaxToken :
          ( /\ Handled(u, "answer_handler")
            /\ update'.data = AnswerData(k)
            /\ InProgress(user_data[u])
            /\ k < Len(CurrentQuestion(user_data[u]).answers) )
          => ( /\ user_data'[u]["answers"] = Append(user_data[u]["answers"], k)
               /\ user_data'[u]["current_question"]
                      = user_data[u]["current_question"] + 1
               /\ user_data'[u]["questions"] = user_data[u]["questions"] ) ]_vars

\* C10 witness: answer_3 was recorded as the second answer of the built-in
\* quiz.
C10_Witness ==
    \E u \in users :
        /\ handler = "answer_handler"
        /\ update.user = u
        /\ update.data = AnswerData(3)
        /\ QUESTIONS = FallbackQuestions
        /\ Started(user_data[u])
        /\ user_data[u]["answers"] = <<2, 3>>
        /\ user_data[u]["current_question"] = 2

\* The answers recorded for a question of the quiz that are valid for it:
\* entry i answers question i and is an index into that question's answers.
ValidAnswerCount(ud) ==
    Cardinality({ i \in 1..Len(ud["answers"]) :
                    /\ i <= Len(ud["questions"])
                    /\ ud["answers"][i] < Len(ud["questions"][i].answers) })

\* C11: a started quiz with N questions is Completed exactly when N valid
\* answers have been recorded since the last start_quiz, and no result is
\* shown while current_question < N.
C11_CompletedAtNthValidAnswer ==
    \A u \in users :
        Started(user_data[u])
        => ( /\ Completed(user_data[u])
                  <=> ValidAnswerCount(user_data[u]) >= Len(user_data[u]["questions"])
             /\ (rendered.kind = "result" /\ update.user = u)
                  => Completed(user_data[u]) )

\* The handlers of /start, about, contact, guardian and share.
SessionFreeHandlers ==
    { "start_handler", "about_program_handler", "contact_handler",
      "become_guardian_handler", "share_result_handler" }

\* C15: /start, about, contact, guardian and share leave current_question,
\* answers, questions and result_animal as they were, in any state.
C15_InformationalActionsKeepSession ==
    [][ \A u \in users :
          (update'.user = u /\ handler' \in SessionFreeHandlers)
          => user_data'[u] = user_data[u] ]_vars

\* C15 witness: /start was handled in a quiz that holds one answer and an
\* earlier result, and the welcome menu was rendered.
C15_Witness ==
    \E u \in users :
        /\ handler = "start_handler"
        /\ update.user = u
        /\ rendered.kind = "welcome"
        /\ InProgress(user_data[u])
        /\ Len(user_data[u]["answers"]) = 1
        /\ HasKey(user_data[u], "result_animal")

\* C18: every callback button of a rendered prompt carries a token that the
\* router routes to a registered handler.
C18_EveryButtonIsRouted ==
    \A i \in 1..Len(rendered.buttons) : Route(rendered.buttons[i]) # "none"

\* C19: after a handler has shown the question (start_quiz_handler, or
\* answer_handler on a started session), a session with current_question =
\* i < len(questions) was presented questions[i] labelled i+1 of
\* len(questions), with exactly the buttons answer_0 .. answer_(m-1), one per
\* answer; with current_question >= len(questions) the result was presented.
C19_PromptIsCurrentQuestion ==
    \A u \in users :
        ( /\ update.user = u
          /\ handler \in {"start_quiz_handler", "answer_handler"}
          /\ error = "none" )
        => LET ud == user_data[u]
               i  == ud["current_question"]
           IN  IF i < Len(ud["questions"])
               THEN /\ rendered.kind = "question"
                    /\ rendered.body = ud["questions"][i + 1].question
                    /\ rendered.num = i + 1
                    /\ rendered.of = Len(ud["questions"])
                    /\ Len(rendered.buttons) = Len(ud["questions"][i + 1].answers)
                    /\ \A j \in 1..Len(rendered.buttons) :
                           rendered.buttons[j] = Data("answer", <<j - 1>>)
               ELSE /\ rendered.kind = "result"
                    /\ rendered.body = ud["result_animal"]

\* C19 witness: the second question of the file's quiz was presented, as
\* question 2 of 2 with its three buttons.
C19_Witness ==
    \E u \in users :
        /\ update.user = u
        /\ handler = "answer_handler"
        /\ rendered.kind = "question"
        /\ rendered.body = "FileQ2"
        /\ rendered.num = 2
        /\ rendered.of = 2
        /\ rendered.buttons = << Data("answer", <<0>>), Data("answer", <<1>>),
                                 Data("answer", <<2>>) >>

\* C16: with a token, start-up never fails over an absent content file;
\* an absent animals.json yields exactly the 3 built-in results, an absent
\* questions.json exactly the 2 built-in questions with 4 answers each, and
\* each load is decided by its own file alone: a present file yields the
\* file's list whatever the other file is.
C16_AbsentFileYieldsFallback ==
    (BOT_TOKEN = "123:token")
    => ( /\ process = "polling"
         /\ ~animals_json.exists
                => ANIMALS = <<"AmurTiger", "RedPanda", "SnowLeopard">>
         /\ ~questions_json.exists
                => ( /\ Len(QUESTIONS) = 2
                     /\ QUESTIONS[1].question = "TimeOfDay"
                     /\ QUESTIONS[2].question = "WhereToLive"
                     /\ \A i \in 1..2 : Len(QUESTIONS[i].answers) = 4 )
         /\ animals_json.exists => ANIMALS = animals_json.data
         /\ questions_json.exists => QUESTIONS = questions_json.data )

\* C16 witness: the animals file is absent, the questions file present, and
\* a quiz over the file's questions ended with a built-in result.
C16_Witness ==
    /\ ~animals_json.exists
    /\ questions_json.exists
    /\ Len(QUESTIONS) = 2
    /\ QUESTIONS[1].question = "FileQ1"
    /\ ANIMALS[3] = "SnowLeopard"
    /\ rendered.kind = "result"
    /\ rendered.body = "SnowLeopard"

\* C17: with BOT_TOKEN missing the process ends in the fatal start-up
\* error: no content is loaded, no handler is registered and no update is
\* ever handled.
C17_MissingTokenIsFatal ==
    (BOT_TOKEN = NoToken)
    => ( /\ process = "fatal"
         /\ ANIMALS = NotLoaded
         /\ QUESTIONS = NotLoaded
         /\ registered = {}
         /\ update = NoUpdate
         /\ handler = "none"
         /\ rendered = NoPrompt
         /\ \A u \in users : user_data[u] = EmptyDict )

\* C17 witness: the process that found no token, with both content files
\* present.
C17_Witness ==
    /\ BOT_TOKEN = NoToken
    /\ process = "fatal"
    /\ animals_json.exists
    /\ questions_json.exists
    /\ Len(questions_json.data) = 2

\* C20: an answer button pressed on the prompt of a question other than the
\* current one is not recorded as an answer.
C20_StalePressNotRecorded ==
    [][ \A u \in users :
          ( /\ Handled(u, "answer_handler")
            /\ Started(user_data[u])
            /\ update'.origin # 0
            /\ update'.origin # user_data[u]["current_question"] + 1 )
          => user_data'[u]["answers"] = user_data[u]["answers"] ]_vars

\* C13: an update of user u leaves the user_data of every other user
\* (current_question, answers, questions, result_animal) unchanged.
C13_SessionsAreIndependent ==
    [][ \A v \in users :
          (update'.user # v) => user_data'[v] = user_data[v] ]_vars

\* C13 witness: an answer of u1 was handled while u2 holds a session of its
\* own, with other answers and another result.
C13_Witness ==
    /\ update.user = "u1"
    /\ handler = "answer_handler"
    /\ Completed(user_data["u1"])
    /\ user_data["u1"]["answers"] = <<1, 1>>
    /\ user_data["u1"]["result_animal"] = "SnowLeopard"
    /\ InProgress(user_data["u2"])
    /\ user_data["u2"]["answers"] = <<0>>
    /\ HasKey(user_data["u2"], "result_animal")
    /\ user_data["u2"]["result_animal"] = "RedPanda"

\* C14: two sessions that are Completed with the same answers hold the same
\* result, whatever either user did before.
C14_SameAnswersSameResult ==
    \A u \in users : \A v \in users :
        ( /\ Completed(user_data[u])
          /\ Completed(user_data[v])
          /\ user_data[u]["answers"] = user_data[v]["answers"] )
        => user_data[u]["result_animal"] = user_data[v]["result_animal"]

\* C14 witness: both users have completed a quiz with answers [1, 0], u1
\* last, and hold the same result.
C14_Witness ==
    /\ Completed(user_data["u1"])
    /\ Completed(user_data["u2"])
    /\ user_data["u1"]["answers"] = <<1, 0>>
    /\ user_data["u2"]["answers"] = <<1, 0>>
    /\ user_data["u1"]["result_animal"] = "RedPanda"
    /\ user_data["u2"]["result_animal"] = "RedPanda"
    /\ update.user = "u1"
    /\ handler = "answer_handler"

\* The tasks that have gone through lines 140-145 of answer_handler.
Recorded == {t \in DOMAIN tasks : tasks[t].pc \in {"edit_message", "done"}}

\* The indices of the tasks in ts, in each order in which they can have been
\* appended.
AppendOrders(ts) ==
    IF ts = {} THEN {<<>>}
    ELSE IF Cardinality(ts) = 1
         THEN {<<ParseInt(tasks[t].data.digits)>> : t \in ts}
         ELSE {<<ParseInt(tasks[a].data.digits), ParseInt(tasks[b].data.digits)>> :
                   <<a, b>> \in {p \in ts \X ts : p[1] # p[2]}}

\* C12: when two answer presses of one user are handled concurrently,
\* interleaved at the awaits of the handlers, then at every suspension point
\* of a running quiz current_question equals the number of answers, and the
\* answers are those from before the presses followed by the index of each
\* press handled so far, once each.
C12_ConcurrentAnswersKeepSession ==
    \A t \in DOMAIN tasks :
        LET ud     == user_data[tasks[t].user]
            before == tasks[t].snapshot
        IN  Started(before) =>
                /\ Started(ud)
                /\ ud["current_question"] = Len(ud["answers"])
                /\ \E tail \in AppendOrders(Recorded) :
                       ud["answers"] = before["answers"] \o tail

\* Both presses were handled to the end, the second task appended before the
\* first, after one answer given earlier.
C12_Witness ==
    /\ DOMAIN tasks = {"t1", "t2"}
    /\ \A t \in DOMAIN tasks : tasks[t].pc = "done"
    /\ tasks["t1"].data = AnswerData(0)
    /\ tasks["t2"].data = AnswerData(1)
    /\ Started(tasks["t1"].snapshot)
    /\ Len(tasks["t1"].snapshot["answers"]) = 1
    /\ user_data["u1"]["answers"] = tasks["t1"].snapshot["answers"] \o <<1, 0>>

====
